---- MODULE Spec2Model ----
(***************************************************************************)
(* Model of ec_graviton_migration.py (class GravitonAdvisor and main).     *)
(*                                                                         *)
(* Strings the program inspects character by character (instance types,    *)
(* platform descriptions) are sequences of one-character strings.  Python  *)
(* None is the empty tuple <<>> and a present value v is <<v>> (NONE and   *)
(* Some).  Prices are integers, in thousandths of a dollar.                *)
(***************************************************************************)
EXTENDS Integers, Sequences, FiniteSets, TLC

VARIABLES
    pc,             \* position of main / load_all_prices / process_csv
    task,           \* per region: the future and the locals of its fetch call
    price_cache,    \* self.price_cache: region -> (instance type -> price)
    writes,         \* history: number of assignments to price_cache[region]
    results,        \* process_csv: the list of analysis results
    summary,        \* process_csv: the summary dict, in insertion order
    rows,           \* process_csv: the rows of the input iterated so far
    raised,         \* the exception caught by process_csv ("" if none)
    report,         \* the output workbook: "none" or "written"
    typ,            \* input of the classifier harness
    out,            \* output of the classifier harness
    exit_status     \* the exit status of the process, NONE while it runs

vars == <<pc, task, price_cache, writes, results, summary, rows, raised,
          report, typ, out, exit_status>>

(***************************************************************************)
(* Bounds                                                                  *)
(***************************************************************************)
NumRegions == 2
MaxPages == 2
MaxRecords == 2
MaxTypeLen == 5

(***************************************************************************)
(* Values                                                                  *)
(***************************************************************************)
NONE == <<>>
Some(v) == <<v>>
IsSome(o) == o /= <<>>
Val(o) == o[1]

\* Python truthiness of an optional number: None and 0 are falsy.
Truthy(o) == IsSome(o) /\ Val(o) /= 0

LowerLetters == {"a","b","c","d","e","f","g","h","i","j","k","l","m",
                 "n","o","p","q","r","s","t","u","v","w","x","y","z"}
Digits == {"0","1","2","3","4","5","6","7","8","9"}

\* str.lower on one character, for the characters the model uses.
LowerChar(c) ==
    CASE c = "W" -> "w"
      [] c = "I" -> "i"
      [] c = "N" -> "n"
      [] c = "D" -> "d"
      [] c = "O" -> "o"
      [] c = "S" -> "s"
      [] c = "L" -> "l"
      [] c = "U" -> "u"
      [] c = "X" -> "x"
      [] OTHER -> c

Lower(s) == [i \in 1..Len(s) |-> LowerChar(s[i])]

\* needle in hay (Python's substring test)
Contains(hay, needle) ==
    \E i \in 0..(Len(hay) - Len(needle)) :
        \A j \in 1..Len(needle) : hay[i + j] = needle[j]

\* index of the first "." of s, or Len(s)+1 when there is none
RECURSIVE FirstDotFrom(_, _)
FirstDotFrom(s, i) ==
    IF i > Len(s) THEN i
    ELSE IF s[i] = "." THEN i
    ELSE FirstDotFrom(s, i + 1)

\* first index >= i of s that holds no character of set (Len(s)+1 if none)
RECURSIVE RunEnd(_, _, _)
RunEnd(s, i, set) ==
    IF i > Len(s) THEN i
    ELSE IF s[i] \in set THEN RunEnd(s, i + 1, set)
    ELSE i

(***************************************************************************)
(* __init__                                                                *)
(***************************************************************************)
gpu_instance_families ==
    { <<"p">>, <<"g">>, <<"v","t">>, <<"d","l">>, <<"t","r","n">>, <<"i","n","f">> }

\* re.compile(r"^[a-z]\d+g\.").match(s)
\* mutant of graviton_pattern: only the generations 6, 7 and 8 are recognised
graviton_pattern_Gen6to8(s) ==
    /\ Len(s) >= 4
    /\ s[1] \in LowerLetters
    /\ s[2] \in {"6", "7", "8"}
    /\ s[3] = "g"
    /\ s[4] = "."

graviton_pattern(s) ==
    /\ Len(s) >= 4
    /\ s[1] \in LowerLetters
    /\ s[2] \in Digits
    /\ LET e == RunEnd(s, 2, Digits)
       IN  /\ e + 1 <= Len(s)
           /\ s[e] = "g"
           /\ s[e + 1] = "."

(***************************************************************************)
(* is_gpu_instance: [exc, val]; exc = "IndexError" when prefix[0] is       *)
(* evaluated on an empty prefix (the type starts with ".").                *)
(***************************************************************************)
is_gpu_family(family) == family \in gpu_instance_families

is_gpu_instance(instance_type) ==
    IF instance_type = <<>> THEN [exc |-> "none", val |-> FALSE]
    ELSE LET prefix == SubSeq(instance_type, 1, FirstDotFrom(instance_type, 1) - 1)
         IN  IF prefix = <<>> THEN [exc |-> "IndexError", val |-> FALSE]
             ELSE [exc |-> "none", val |-> is_gpu_family(<<prefix[1]>>)]

is_graviton_instance(instance_type) ==
    IF instance_type = <<>> THEN FALSE
    ELSE graviton_pattern(instance_type)

(***************************************************************************)
(* match_graviton_instances                                                *)
(***************************************************************************)
\* re.match(r"^([a-z])(\d+)([a-z]*)\.(.+)$", s): NONE, or
\* Some([family, generation, suffix, size])
type_regex(s) ==
    IF Len(s) < 2 \/ s[1] \notin LowerLetters \/ s[2] \notin Digits THEN NONE
    ELSE LET d == RunEnd(s, 2, Digits)
             l == RunEnd(s, d, LowerLetters)
         IN  IF l + 1 <= Len(s) /\ s[l] = "."
             THEN Some([family |-> s[1],
                        generation |-> SubSeq(s, 2, d - 1),
                        suffix |-> SubSeq(s, d, l - 1),
                        size |-> SubSeq(s, l + 1, Len(s))])
             ELSE NONE

\* f'{family}{gen}g.{size}'
GravitonName(family, gen, size) == <<family, gen, "g", ".">> \o size

\* mutant of family_rule: family r is given a fourth-generation candidate
family_rule_R8(family, size) ==
    IF family = "t" THEN <<Some(GravitonName("t", "4", size)), NONE, NONE>>
    ELSE IF family \in {"c", "m", "r"}
    THEN <<Some(GravitonName(family, "6", size)),
           Some(GravitonName(family, "7", size)),
           Some(GravitonName(family, "8", size))>>
    ELSE IF family = "x" THEN <<Some(GravitonName("x", "2", size)), NONE, NONE>>
    ELSE <<Some(GravitonName(family, "6", size)), NONE, NONE>>

family_rule(family, size) ==
    IF family = "t" THEN <<Some(GravitonName("t", "4", size)), NONE, NONE>>
    ELSE IF family \in {"c", "m", "r"}
    THEN <<Some(GravitonName(family, "6", size)),
           Some(GravitonName(family, "7", size)),
           IF family /= "r" THEN Some(GravitonName(family, "8", size)) ELSE NONE>>
    ELSE IF family = "x" THEN <<Some(GravitonName("x", "2", size)), NONE, NONE>>
    ELSE <<Some(GravitonName(family, "6", size)), NONE, NONE>>

match_graviton_instances(instance_type) ==
    IF instance_type = <<>> THEN <<NONE, NONE, NONE>>
    ELSE LET match == type_regex(instance_type)
         IN  IF match = NONE THEN <<NONE, NONE, NONE>>
             ELSE IF is_gpu_instance(instance_type).val
                     \/ is_graviton_instance(instance_type)
             THEN <<NONE, NONE, NONE>>
             ELSE family_rule(Val(match).family, Val(match).size)

(***************************************************************************)
(* Instance types and platform texts used as inputs                        *)
(***************************************************************************)
LARGE == <<"l","a","r","g","e">>
MICRO == <<"m","i","c","r","o">>
T_m5_large  == <<"m","5",".">> \o LARGE
T_r5_large  == <<"r","5",".">> \o LARGE
T_c5_large  == <<"c","5",".">> \o LARGE
T_t3_micro  == <<"t","3",".">> \o MICRO
T_m6g_large == <<"m","6","g",".">> \o LARGE
T_m7g_large == <<"m","7","g",".">> \o LARGE
T_r6g_large == <<"r","6","g",".">> \o LARGE
T_t4g_micro == <<"t","4","g",".">> \o MICRO
T_g4_large  == <<"g","4","d","n",".">> \o LARGE
T_vt1_large == <<"v","t","1",".">> \o LARGE
T_dot_large == <<".">> \o LARGE
T_nodot     == <<"m","5">>
T_empty     == <<>>

P_linux   == <<"L","i","n","u","x","/","U","N","I","X">>
P_plain   == <<"L","i","n","u","x">>
P_windows == <<"W","i","n","d","o","w","s">>
P_win_low == <<"R","e","d"," ","w","i","n","d","o","w","s">>
P_empty   == <<>>
WINDOWS   == <<"w","i","n","d","o","w","s">>

(***************************************************************************)
(* REGION_LOCATION_MAP: the model keeps the first NumRegions regions of    *)
(* the table; "cn-north-1" and "" are not in the table.                    *)
(***************************************************************************)
RegionNames == <<"us-east-1", "us-east-2", "us-west-1", "us-west-2", "af-south-1">>
REGION_LOCATION_MAP == { RegionNames[i] : i \in 1..NumRegions }
UnknownRegion == "cn-north-1"
RegionIndex(r) == CHOOSE i \in 1..Len(RegionNames) : RegionNames[i] = r

max_workers == 5
RETRIES == 3

(***************************************************************************)
(* The pricing source: what get_products answers for a region and a page.  *)
(* A product is [instanceType, operatingSystem, preInstalledSw, terms,     *)
(* usd]: terms is "ok", "none" (no OnDemand term) or "nodims" (no price    *)
(* dimension); usd is the pricePerUnit.USD string as a number, or NONE.    *)
(***************************************************************************)
Product(t, os, sw, terms, usd) ==
    [instanceType |-> t, operatingSystem |-> os, preInstalledSw |-> sw,
     terms |-> terms, usd |-> usd]

Catalogue ==
    << << Product(T_m5_large,  "Linux",   "NA",      "ok",     Some(96)),
          Product(T_m6g_large, "Linux",   "NA",      "ok",     Some(77)),
          Product(T_m5_large,  "Windows", "NA",      "ok",     Some(188)),
          Product(T_m6g_large, "Linux",   "SQL Std", "ok",     Some(300)) >>,
       << Product(T_t4g_micro, "Linux",   "NA",      "ok",     Some(0)),
          Product(T_m5_large,  "Linux",   "",        "ok",     Some(100)),
          Product(T_t3_micro,  "Linux",   "NA",      "ok",     Some(10)),
          Product(T_r5_large,  "Linux",   "NA",      "none",   Some(126)) >>,
       << Product(T_m7g_large, "Linux",   "NA",      "ok",     Some(82)),
          Product(T_r6g_large, "Linux",   "NA",      "nodims", Some(101)),
          Product(T_r5_large,  "Linux",   "NA",      "ok",     Some(126)),
          Product(T_c5_large,  "Linux",   "NA",      "ok",     NONE) >> >>

\* response["PriceList"] of the i-th page of region r
PriceList(r, i) == Catalogue[((RegionIndex(r) + i - 2) % Len(Catalogue)) + 1]

(***************************************************************************)
(* _extract_price_from_product: NONE or Some(<<instance type, price>>)     *)
(***************************************************************************)
_extract_price_from_product(item) ==
    IF item.preInstalledSw /= "" /\ item.preInstalledSw /= "NA" THEN NONE
    ELSE IF item.operatingSystem /= "Linux" THEN NONE
    ELSE IF item.terms = "none" THEN NONE
    ELSE IF item.terms = "nodims" THEN NONE
    ELSE IF IsSome(item.usd) THEN Some(<<item.instanceType, Val(item.usd)>>)
    ELSE NONE

EmptyMap == [t \in {} |-> 0]

\* price_data[instance_type] = price
Put(m, k, v) == [t \in (DOMAIN m) \cup {k} |-> IF t = k THEN v ELSE m[t]]

\* the for loop over response["PriceList"], from item i on
RECURSIVE ProcessItems(_, _, _)
ProcessItems(price_data, items, i) ==
    IF i > Len(items) THEN price_data
    ELSE LET product_data == _extract_price_from_product(items[i])
         IN  ProcessItems(IF IsSome(product_data)
                          THEN Put(price_data, Val(product_data)[1], Val(product_data)[2])
                          ELSE price_data,
                          items, i + 1)

(***************************************************************************)
(* fetch_prices_for_region, one call per future.                           *)
(* st: "idle" (not submitted), "pending" (queued in the pool), "loop" (in  *)
(* the while loop), "return" (loop left, at the return statement), "done". *)
(* next_token 0 is None; token i asks for page i+1.  requests, oks and log *)
(* are history: the number of get_products calls, the number that          *)
(* succeeded, and for each call the page its token asked for, whether it   *)
(* succeeded and whether the response carried a token.  The locals are     *)
(* gone once the call has returned.                                        *)
(***************************************************************************)
NoLocals ==
    [next_token |-> 0, retries |-> 0, price_data |-> EmptyMap, requests |-> 0, oks |-> 0,
     log |-> <<>>]

IdleTask ==
    [st |-> "idle", loc |-> NoLocals, result |-> NONE, exception |-> FALSE,
     collected |-> FALSE]

Running == { r \in DOMAIN task : task[r].st \in {"loop", "return"} }

FetchBegin(r) ==
    /\ task[r].st = "pending"
    /\ Cardinality(Running) < max_workers
    /\ IF r \notin REGION_LOCATION_MAP
       THEN task' = [task EXCEPT ![r].st = "done", ![r].result = Some(EmptyMap)]
       ELSE task' = [task EXCEPT ![r].st = "loop",
                                 ![r].loc = [NoLocals EXCEPT !.retries = RETRIES]]
    /\ UNCHANGED <<pc, price_cache, writes, results, summary, rows, raised,
                   report, typ, out, exit_status>>

\* mutant of PageOk: the token of the response is not kept, the next
\* request asks for the same page again
PageOk_KeepsToken(loc, r, more) ==
    [loc EXCEPT !.price_data = ProcessItems(loc.price_data, PriceList(r, loc.next_token + 1), 1),
                !.requests = loc.requests + 1,
                !.oks = loc.oks + 1,
                !.log = Append(loc.log, [page |-> loc.next_token + 1, ok |-> TRUE,
                                         more |-> more])]

\* mutant of PageOk: a successful page gives the next page a fresh budget
PageOk_ResetsRetries(loc, r, more) ==
    [loc EXCEPT !.price_data = ProcessItems(loc.price_data, PriceList(r, loc.next_token + 1), 1),
                !.requests = loc.requests + 1,
                !.oks = loc.oks + 1,
                !.retries = RETRIES,
                !.log = Append(loc.log, [page |-> loc.next_token + 1, ok |-> TRUE,
                                         more |-> more]),
                !.next_token = IF more THEN loc.next_token + 1 ELSE 0]

\* a request that succeeds: the page is processed, then the loop goes on
\* with the page's token or ends when the page carries none
PageOk(loc, r, more) ==
    [loc EXCEPT !.price_data = ProcessItems(loc.price_data, PriceList(r, loc.next_token + 1), 1),
                !.requests = loc.requests + 1,
                !.oks = loc.oks + 1,
                !.log = Append(loc.log, [page |-> loc.next_token + 1, ok |-> TRUE,
                                         more |-> more]),
                !.next_token = IF more THEN loc.next_token + 1 ELSE 0]

FetchPageOk(r) ==
    /\ task[r].st = "loop"
    /\ task[r].loc.retries > 0
    /\ \E more \in BOOLEAN :
        /\ more => task[r].loc.next_token + 1 < MaxPages
        /\ task' = [task EXCEPT ![r].loc = PageOk(task[r].loc, r, more),
                                ![r].st = IF more THEN "loop" ELSE "return"]
    /\ UNCHANGED <<pc, price_cache, writes, results, summary, rows, raised,
                   report, typ, out, exit_status>>

\* mutant of PageFail: the except branch drops what was accumulated
PageFail_DropsData(loc) ==
    [loc EXCEPT !.requests = loc.requests + 1, !.retries = loc.retries - 1,
                !.log = Append(loc.log, [page |-> loc.next_token + 1, ok |-> FALSE,
                                         more |-> FALSE]),
                !.price_data = EmptyMap]

\* a request that raises: the except branch
PageFail(loc) ==
    [loc EXCEPT !.requests = loc.requests + 1, !.retries = loc.retries - 1,
                !.log = Append(loc.log, [page |-> loc.next_token + 1, ok |-> FALSE,
                                         more |-> FALSE])]

\* mutant of FetchPageFail: the retry counter is shared by the workers, a
\* failure in one region uses up an attempt of every running fetch
FetchPageFail_SharedRetries(r) ==
    /\ task[r].st = "loop"
    /\ task[r].loc.retries > 0
    /\ task' = [q \in DOMAIN task |->
                  IF task[q].st = "loop" /\ task[q].loc.retries > 0
                  THEN LET loc == PageFail(task[q].loc)
                       IN  [task[q] EXCEPT !.loc = loc,
                                           !.st = IF loc.retries = 0 THEN "return"
                                                  ELSE "loop"]
                  ELSE task[q]]
    /\ UNCHANGED <<pc, price_cache, writes, results, summary, rows, raised,
                   report, typ, out, exit_status>>

FetchPageFail(r) ==
    /\ task[r].st = "loop"
    /\ task[r].loc.retries > 0
    /\ LET loc == PageFail(task[r].loc)
       IN  task' = [task EXCEPT ![r].loc = loc,
                                ![r].st = IF loc.retries = 0 THEN "return" ELSE "loop"]
    /\ UNCHANGED <<pc, price_cache, writes, results, summary, rows, raised,
                   report, typ, out, exit_status>>

\* return price_data
Returned(t) ==
    [t EXCEPT !.st = "done", !.result = Some(t.loc.price_data), !.loc = NoLocals]

FetchReturn(r) ==
    /\ task[r].st = "return"
    /\ task' = [task EXCEPT ![r] = Returned(task[r])]
    /\ UNCHANGED <<pc, price_cache, writes, results, summary, rows, raised,
                   report, typ, out, exit_status>>

(***************************************************************************)
(* load_all_prices                                                         *)
(***************************************************************************)
Submit ==
    /\ pc = "load_all_prices"
    /\ task' = [r \in DOMAIN task |-> [task[r] EXCEPT !.st = "pending"]]
    /\ pc' = "as_completed"
    /\ UNCHANGED <<price_cache, writes, results, summary, rows, raised,
                   report, typ, out, exit_status>>

\* mutant of Store: the result is stored under every key seen so far
Store_AllKeys(cache, r, t) ==
    IF t.exception THEN cache
    ELSE [x \in (DOMAIN cache) \cup {r} |-> Val(t.result)]

\* self.price_cache[region] = future.result(), or the except branch when
\* the future holds an exception
Store(cache, r, t) ==
    IF t.exception THEN cache
    ELSE [x \in (DOMAIN cache) \cup {r} |-> IF x = r THEN Val(t.result) ELSE cache[x]]

Collect(r) ==
    /\ pc = "as_completed"
    /\ task[r].st = "done"
    /\ ~task[r].collected
    /\ price_cache' = Store(price_cache, r, task[r])
    /\ writes' = [writes EXCEPT ![r] = IF task[r].exception THEN @ ELSE @ + 1]
    /\ task' = [task EXCEPT ![r].collected = TRUE]
    /\ UNCHANGED <<pc, results, summary, rows, raised, report, typ, out, exit_status>>

\* mutant of PoolExit: load_all_prices returns without waiting for the futures
PoolExit_NoWait ==
    /\ pc = "as_completed"
    /\ pc' = "process_csv"
    /\ UNCHANGED <<task, price_cache, writes, results, summary, rows, raised,
                   report, typ, out, exit_status>>

\* the as_completed loop is exhausted and the executor shut down
PoolExit ==
    /\ pc = "as_completed"
    /\ \A r \in DOMAIN task : task[r].collected
    /\ pc' = "process_csv"
    /\ UNCHANGED <<task, price_cache, writes, results, summary, rows, raised,
                   report, typ, out, exit_status>>

(***************************************************************************)
(* get_price                                                               *)
(***************************************************************************)
Lookup(m, k) == IF k \in DOMAIN m THEN Some(m[k]) ELSE NONE

get_price(cache, instance_type, region) ==
    IF instance_type = <<>> \/ region = "" THEN NONE
    ELSE IF region \in DOMAIN cache THEN Lookup(cache[region], instance_type)
    ELSE NONE

(***************************************************************************)
(* analyze_instance.  Status texts, in the order of the source:            *)
(* "未知", "OS不支持", "GPU实例不支持", "已是Graviton实例",                *)
(* "Spot实例不参与转换", "可以转换", "区域内无对应Graviton实例".           *)
(***************************************************************************)
ST_UNKNOWN  == "unknown"
ST_OS       == "OS unsupported"
ST_GPU      == "GPU unsupported"
ST_GRAVITON == "already migrated"
ST_SPOT     == "spot excluded"
ST_OK       == "convertible"
ST_NOCAND   == "no regional candidate available"

Row(name, t, region, platform, lifecycle) ==
    [InstanceName |-> name, InstanceType |-> t, Region |-> region,
     PlatformDetails |-> platform, InstanceLifecycle |-> lifecycle]

\* round(x, 2) of x = n/d percent, as hundredths of a percent (ties to even)
RoundDiv(n, d) ==
    LET q == n \div d
        rem == n - q * d
    IN  IF 2 * rem > d THEN q + 1
        ELSE IF 2 * rem < d THEN q
        ELSE IF q % 2 = 0 THEN q ELSE q + 1

\* round((1 - g_price / original_price) * 100, 2), guarded by
\* "if original_price and g_price"
Savings(original_price, g_price) ==
    IF Truthy(original_price) /\ Truthy(g_price)
    THEN Some(RoundDiv(10000 * (Val(original_price) - Val(g_price)), Val(original_price)))
    ELSE NONE

\* is_windows = platform_details and "windows" in platform_details.lower()
is_windows(platform_details) ==
    platform_details /= <<>> /\ Contains(Lower(platform_details), WINDOWS)

\* if g2_price or g3_price or g4_price
AnyPrice(g2_price, g3_price, g4_price) ==
    Truthy(g2_price) \/ Truthy(g3_price) \/ Truthy(g4_price)

\* mutant of InitialResult: the original price is reported only for a row
\* whose platform is Linux/UNIX
InitialResult_PriceByPlatform(row, original_price) ==
    [InstanceName |-> row.InstanceName, InstanceType |-> row.InstanceType,
     Region |-> row.Region,
     x86_OD_Price |-> IF row.PlatformDetails = P_linux THEN original_price ELSE NONE,
     Graviton_Status |-> ST_UNKNOWN,
     Graviton2 |-> NONE, Graviton2_OD_Price |-> NONE, Savings_Graviton2 |-> NONE,
     Graviton3 |-> NONE, Graviton3_OD_Price |-> NONE, Savings_Graviton3 |-> NONE,
     Graviton4 |-> NONE, Graviton4_OD_Price |-> NONE, Savings_Graviton4 |-> NONE]

InitialResult(row, original_price) ==
    [InstanceName |-> row.InstanceName, InstanceType |-> row.InstanceType,
     Region |-> row.Region, x86_OD_Price |-> original_price,
     Graviton_Status |-> ST_UNKNOWN,
     Graviton2 |-> NONE, Graviton2_OD_Price |-> NONE, Savings_Graviton2 |-> NONE,
     Graviton3 |-> NONE, Graviton3_OD_Price |-> NONE, Savings_Graviton3 |-> NONE,
     Graviton4 |-> NONE, Graviton4_OD_Price |-> NONE, Savings_Graviton4 |-> NONE]

\* the else branch of the status cascade
MappingBranch(result, cache, row, original_price) ==
    LET g == match_graviton_instances(row.InstanceType)
        g2_price == IF IsSome(g[1]) THEN get_price(cache, Val(g[1]), row.Region) ELSE NONE
        g3_price == IF IsSome(g[2]) THEN get_price(cache, Val(g[2]), row.Region) ELSE NONE
        g4_price == IF IsSome(g[3]) THEN get_price(cache, Val(g[3]), row.Region) ELSE NONE
    IN  [result EXCEPT
            !.Graviton2 = g[1], !.Graviton2_OD_Price = g2_price,
            !.Graviton3 = g[2], !.Graviton3_OD_Price = g3_price,
            !.Graviton4 = g[3], !.Graviton4_OD_Price = g4_price,
            !.Savings_Graviton2 = Savings(original_price, g2_price),
            !.Savings_Graviton3 = Savings(original_price, g3_price),
            !.Savings_Graviton4 = Savings(original_price, g4_price),
            !.Graviton_Status = IF AnyPrice(g2_price, g3_price, g4_price)
                                THEN ST_OK ELSE ST_NOCAND]

\* the if/elif cascade, once the four flags are known
Decide(result, cache, row, original_price, windows, gpu, graviton, spot) ==
    IF windows THEN [result EXCEPT !.Graviton_Status = ST_OS]
    ELSE IF gpu THEN [result EXCEPT !.Graviton_Status = ST_GPU]
    ELSE IF graviton THEN [result EXCEPT !.Graviton_Status = ST_GRAVITON]
    ELSE IF spot THEN [result EXCEPT !.Graviton_Status = ST_SPOT]
    ELSE MappingBranch(result, cache, row, original_price)

\* [exc, res]: exc is "none", or the exception is_gpu_instance raised
\* before any status was decided (res is then meaningless)
analyze_instance(cache, row) ==
    LET is_spot == row.InstanceLifecycle = "spot"
        windows == is_windows(row.PlatformDetails)
        is_gpu == is_gpu_instance(row.InstanceType)
        is_graviton == is_graviton_instance(row.InstanceType)
        original_price == get_price(cache, row.InstanceType, row.Region)
        result == InitialResult(row, original_price)
    IN  IF is_gpu.exc /= "none" THEN [exc |-> is_gpu.exc, res |-> result]
        ELSE [exc |-> "none",
              res |-> Decide(result, cache, row, original_price, windows,
                             is_gpu.val, is_graviton, is_spot)]

(***************************************************************************)
(* process_csv                                                             *)
(***************************************************************************)
Key(x) == <<x.InstanceType, x.Region>>

HasKey(sum, key) == \E i \in 1..Len(sum) : Key(sum[i]) = key
KeyIndex(sum, key) == CHOOSE i \in 1..Len(sum) : Key(sum[i]) = key

NewSummaryRow(result) ==
    [InstanceType |-> result.InstanceType, Region |-> result.Region, Count |-> 0,
     OD_Price |-> result.x86_OD_Price,
     Graviton2 |-> result.Graviton2, Graviton2_OD_Price |-> result.Graviton2_OD_Price,
     Savings_Graviton2 |-> result.Savings_Graviton2,
     Graviton3 |-> result.Graviton3, Graviton3_OD_Price |-> result.Graviton3_OD_Price,
     Savings_Graviton3 |-> result.Savings_Graviton3,
     Graviton4 |-> result.Graviton4, Graviton4_OD_Price |-> result.Graviton4_OD_Price,
     Savings_Graviton4 |-> result.Savings_Graviton4]

\* mutant of Aggregate: the status test is dropped, every result is counted
Aggregate_AnyStatus(sum, result) ==
    LET key == Key(result)
        seeded == IF HasKey(sum, key) THEN sum ELSE Append(sum, NewSummaryRow(result))
        i == KeyIndex(seeded, key)
    IN  [seeded EXCEPT ![i].Count = @ + 1]

\* the body of "if result[Graviton_Status] == ..." in the row loop
Aggregate(sum, result) ==
    IF result.Graviton_Status = ST_OK
    THEN LET key == Key(result)
             seeded == IF HasKey(sum, key) THEN sum ELSE Append(sum, NewSummaryRow(result))
             i == KeyIndex(seeded, key)
         IN  [seeded EXCEPT ![i].Count = @ + 1]
    ELSE sum

\* the rows the input file may hold
R1 == RegionNames[1]
R2 == RegionNames[2]
InputRows ==
    { Row("i", T_m5_large,  R1, P_linux, ""),
      Row("j", T_m5_large,  R1, P_plain, ""),
      Row("i", T_m5_large,  R2, P_linux, ""),
      Row("i", T_m5_large,  UnknownRegion, P_linux, ""),
      Row("i", T_m5_large,  "", P_linux, ""),
      Row("i", T_t3_micro,  R2, P_linux, ""),
      Row("i", T_dot_large, R1, P_windows, ""),
      Row("i", T_dot_large, UnknownRegion, P_linux, ""),
      Row("i", T_vt1_large, R1, P_linux, ""),
      Row("i", T_m6g_large, R1, P_linux, "spot"),
      Row("i", T_g4_large,  R1, P_windows, "spot"),
      Row("i", T_g4_large,  R1, P_linux, "spot"),
      Row("i", T_m5_large,  R1, P_win_low, "spot"),
      Row("i", T_r5_large,  R1, P_linux, "spot"),
      Row("i", T_nodot,     R1, P_empty, ""),
      Row("i", T_empty,     R1, P_empty, "") }

\* pd.read_csv with each encoding in turn
ReadCsv ==
    /\ pc = "process_csv"
    /\ \E ok \in BOOLEAN :
        IF ok THEN pc' = "rows" /\ raised' = raised
        ELSE pc' = "except" /\ raised' = "read"
    /\ UNCHANGED <<task, price_cache, writes, results, summary, rows, report, typ, out, exit_status>>

\* one iteration of "for _, row in df.iterrows()"
AnalyzeRow(row) ==
    /\ pc = "rows"
    /\ Len(rows) < MaxRecords
    /\ rows' = Append(rows, row)
    /\ LET a == analyze_instance(price_cache, row)
       IN  IF a.exc /= "none"
           THEN /\ raised' = a.exc
                /\ pc' = "except"
                /\ UNCHANGED <<results, summary>>
           ELSE /\ results' = Append(results, a.res)
                /\ summary' = Aggregate(summary, a.res)
                /\ UNCHANGED <<raised, pc>>
    /\ UNCHANGED <<task, price_cache, writes, report, typ, out, exit_status>>

\* the loop is over: both sheets are written
WriteReport ==
    /\ pc = "rows"
    /\ report' = "written"
    /\ pc' = "done"
    /\ UNCHANGED <<task, price_cache, writes, results, summary, rows, raised, typ, out, exit_status>>

\* except Exception as e: print, traceback; process_csv returns normally
HandleError ==
    /\ pc = "except"
    /\ pc' = "done"
    /\ UNCHANGED <<task, price_cache, writes, results, summary, rows, raised, report,
                   typ, out, exit_status>>

(***************************************************************************)
(* main                                                                    *)
(***************************************************************************)
\* process_csv has returned, normally in every case; main returns and the
\* interpreter exits with status 0
MainReturn ==
    /\ pc = "done"
    /\ pc' = "exit"
    /\ exit_status' = Some(0)
    /\ UNCHANGED <<task, price_cache, writes, results, summary, rows, raised, report,
                   typ, out>>

Init ==
    /\ pc = "load_all_prices"
    /\ task = [r \in REGION_LOCATION_MAP |-> IdleTask]
    /\ price_cache = EmptyMap
    /\ writes = [r \in REGION_LOCATION_MAP |-> 0]
    /\ results = <<>>
    /\ summary = <<>>
    /\ rows = <<>>
    /\ raised = ""
    /\ report = "none"
    /\ typ = <<>>
    /\ out = NONE
    /\ exit_status = NONE

Next ==
    \/ Submit
    \/ \E r \in REGION_LOCATION_MAP : FetchBegin(r)
    \/ \E r \in REGION_LOCATION_MAP : FetchPageOk(r)
    \/ \E r \in REGION_LOCATION_MAP : FetchPageFail(r)
    \/ \E r \in REGION_LOCATION_MAP : FetchReturn(r)
    \/ \E r \in REGION_LOCATION_MAP : Collect(r)
    \/ PoolExit
    \/ ReadCsv
    \/ \E row \in InputRows : AnalyzeRow(row)
    \/ WriteReport
    \/ HandleError
    \/ MainReturn

Spec == Init /\ [][Next]_vars

(***************************************************************************)
(* Harness of the classifier and the mapper: each is applied to one type   *)
(* string, drawn from every string of at most MaxTypeLen characters over   *)
(* Alphabet and from the named types of the documentation.                 *)
(***************************************************************************)
Alphabet == {"t", "m", "r", "x", "z", "g", "5", "."}
BoundedTypes == UNION { [1..n -> Alphabet] : n \in 0..MaxTypeLen }

GpuPrefixes == gpu_instance_families
GpuFamilyTypes ==
    { p \o <<gen, ".">> \o size : p \in GpuPrefixes, gen \in {"1", "2"},
                                   size \in {LARGE, MICRO} }
NamedTypes ==
    GpuFamilyTypes \cup
    {T_m5_large, T_r5_large, T_c5_large, T_t3_micro, T_m6g_large, T_g4_large,
     T_dot_large, T_nodot, T_empty}
TypeInputs == BoundedTypes \cup NamedTypes

InitTypes ==
    /\ pc = "classify"
    /\ typ \in TypeInputs
    /\ out = NONE
    /\ exit_status = NONE
    /\ task = [r \in REGION_LOCATION_MAP |-> IdleTask]
    /\ price_cache = EmptyMap
    /\ writes = [r \in REGION_LOCATION_MAP |-> 0]
    /\ results = <<>>
    /\ summary = <<>>
    /\ rows = <<>>
    /\ raised = ""
    /\ report = "none"

Classify ==
    /\ pc = "classify"
    /\ out = NONE
    /\ out' = Some([gpu |-> is_gpu_instance(typ),
                    graviton |-> is_graviton_instance(typ),
                    match |-> match_graviton_instances(typ)])
    /\ UNCHANGED <<pc, task, price_cache, writes, results, summary, rows, raised,
                   report, typ, exit_status>>

NextTypes == Classify

SpecTypes == InitTypes /\ [][NextTypes]_vars

(***************************************************************************)
(* Reference definitions used by the properties                            *)
(***************************************************************************)
\* the products of pages 1..k of region r, in page order
RECURSIVE PagesItems(_, _)
PagesItems(r, k) == IF k = 0 THEN <<>> ELSE PagesItems(r, k - 1) \o PriceList(r, k)

Kept(item) == IsSome(_extract_price_from_product(item))

\* the map of the kept (type, price) pairs of pages 1..k: each type with
\* the price of its last kept occurrence
ExpectedPrices(r, k) ==
    LET kept == SelectSeq(PagesItems(r, k), Kept)
        last(t) == CHOOSE i \in 1..Len(kept) :
                      /\ kept[i].instanceType = t
                      /\ \A j \in (i + 1)..Len(kept) : kept[j].instanceType /= t
    IN  [t \in { kept[i].instanceType : i \in 1..Len(kept) } |->
            Val(_extract_price_from_product(kept[last(t)]))[2]]

Abandoned(r) == task[r].st = "return" /\ task[r].loc.retries = 0

FetchPhase == pc \in {"load_all_prices", "as_completed"}

\* every known region's fetch has terminated and its result is in the cache
AllFetchedAndStored ==
    \A r \in REGION_LOCATION_MAP :
        /\ task[r].st = "done"
        /\ task[r].collected
        /\ ~task[r].exception => /\ r \in DOMAIN price_cache
                                 /\ price_cache[r] = Val(task[r].result)

(***************************************************************************)
(* C1: when fetch_prices_for_region gives a region up after its 3 failed   *)
(* attempts, the call returns normally (the future holds no exception) and *)
(* what it returns is exactly the map of the pairs extracted from the      *)
(* pages fetched successfully before; and the fetch phase never stops      *)
(* short of the analysis: in each of its states a step is possible.        *)
(***************************************************************************)
C1_AbandonReturnsPartial ==
    /\ [][\A r \in REGION_LOCATION_MAP :
             (Abandoned(r) /\ task'[r].st = "done") =>
                 /\ ~task'[r].exception
                 /\ task'[r].result = Some(ExpectedPrices(r, task[r].loc.oks))
                 /\ task[r].loc.requests = task[r].loc.oks + RETRIES]_vars
    /\ [](FetchPhase => ENABLED Next)

C1_Witness ==
    \E r \in REGION_LOCATION_MAP :
        /\ Abandoned(r)
        /\ task[r].loc.oks >= 1
        /\ DOMAIN task[r].loc.price_data /= {}

(***************************************************************************)
(* C2: a row is analysed only when every known region's fetch task has     *)
(* terminated and its result has been stored in the price cache, and from  *)
(* the first analysed row on the price cache never changes.                *)
(***************************************************************************)
C2_BarrierThenFrozenCache ==
    [][/\ rows' /= rows => AllFetchedAndStored /\ price_cache' = price_cache
       /\ rows /= <<>> => price_cache' = price_cache]_vars

C2_Witness ==
    /\ pc = "done"
    /\ Len(results) = MaxRecords
    /\ report = "written"

(***************************************************************************)
(* C3: each known region's cache entry is assigned at most once, with the  *)
(* map its own fetch task returned; no other key is ever written; and when *)
(* the fetch phase is over every known region has been assigned exactly    *)
(* once, so the key set of the cache is the set of known regions.          *)
(***************************************************************************)
C3_OneWritePerRegion ==
    /\ DOMAIN price_cache \subseteq REGION_LOCATION_MAP
    /\ \A r \in REGION_LOCATION_MAP :
        /\ writes[r] <= 1
        /\ (r \in DOMAIN price_cache) <=> (writes[r] = 1)
        /\ r \in DOMAIN price_cache =>
              /\ task[r].st = "done"
              /\ price_cache[r] = Val(task[r].result)
    /\ ~FetchPhase =>
          /\ DOMAIN price_cache = REGION_LOCATION_MAP
          /\ \A r \in REGION_LOCATION_MAP : writes[r] = 1

\* the fetch phase is over, one region was given up with nothing fetched
\* and another one has prices
C3_Witness ==
    /\ pc = "process_csv"
    /\ \E r1, r2 \in REGION_LOCATION_MAP :
        /\ DOMAIN price_cache[r1] = {}
        /\ DOMAIN price_cache[r2] /= {}

(***************************************************************************)
(* The rule table of the documentation, stated on the shape of the string  *)
(***************************************************************************)
\* <<d, l>>: s is <letter><digits><letters>.<size> with the digits at
\* 2..d-1, the letters at d..l-1, the dot at l and a size after it
RefSplits(s) ==
    { x \in (3..Len(s)) \X (3..Len(s)) :
        /\ s[1] \in LowerLetters
        /\ \A i \in 2..(x[1] - 1) : s[i] \in Digits
        /\ x[1] <= x[2]
        /\ \A i \in x[1]..(x[2] - 1) : s[i] \in LowerLetters
        /\ s[x[2]] = "."
        /\ x[2] < Len(s) }

RefParses(s) == RefSplits(s) /= {}
RefSize(s) == LET x == CHOOSE y \in RefSplits(s) : TRUE IN SubSeq(s, x[2] + 1, Len(s))

\* the family prefix, the characters before the first digit, is a GPU family
RefGpu(s) ==
    \E n \in 1..Len(s) :
        /\ \A i \in 1..n : s[i] \notin Digits
        /\ n = Len(s) \/ s[n + 1] \in Digits
        /\ SubSeq(s, 1, n) \in gpu_instance_families

\* one lowercase letter, one or more digits, "g", a dot
RefMigrated(s) ==
    \E n \in 2..(Len(s) - 2) :
        /\ s[1] \in LowerLetters
        /\ \A i \in 2..n : s[i] \in Digits
        /\ s[n + 1] = "g"
        /\ s[n + 2] = "."

RefCandidate(f, gen, s) == Some(<<f, gen, "g", ".">> \o RefSize(s))

RefTable(s) ==
    IF ~RefParses(s) \/ RefGpu(s) \/ RefMigrated(s) THEN <<NONE, NONE, NONE>>
    ELSE CASE s[1] = "t" -> <<RefCandidate("t", "4", s), NONE, NONE>>
           [] s[1] \in {"c", "m"} ->
                <<RefCandidate(s[1], "6", s), RefCandidate(s[1], "7", s),
                  RefCandidate(s[1], "8", s)>>
           [] s[1] = "r" -> <<RefCandidate("r", "6", s), RefCandidate("r", "7", s), NONE>>
           [] s[1] = "x" -> <<RefCandidate("x", "2", s), NONE, NONE>>
           [] OTHER -> <<RefCandidate(s[1], "6", s), NONE, NONE>>

\* the characters after the first dot
AfterDot(s) == SubSeq(s, FirstDotFrom(s, 1) + 1, Len(s))

NoCandidateFields(res) ==
    /\ res.Graviton2 = NONE /\ res.Graviton2_OD_Price = NONE /\ res.Savings_Graviton2 = NONE
    /\ res.Graviton3 = NONE /\ res.Graviton3_OD_Price = NONE /\ res.Savings_Graviton3 = NONE
    /\ res.Graviton4 = NONE /\ res.Graviton4_OD_Price = NONE /\ res.Savings_Graviton4 = NONE

\* the i-th row got a result, with this status and no candidate field
Decided(i, status) ==
    /\ i <= Len(results)
    /\ results[i].Graviton_Status = status
    /\ NoCandidateFields(results[i])

(***************************************************************************)
(* C4: the exit conditions of analyze_instance apply in the order Windows, *)
(* GPU, already migrated, spot, and the first that matches decides: a      *)
(* Windows row gets "OS unsupported" whatever its type and lifecycle, a    *)
(* GPU row that is not Windows gets "GPU unsupported", an already migrated *)
(* one "already migrated" even when spot, a spot one "spot excluded", each *)
(* with no candidate, candidate price or savings field.                    *)
(***************************************************************************)
C4_DecisionOrder ==
    \A i \in 1..Len(rows) :
        LET row == rows[i]
            t == row.InstanceType
            windows == is_windows(row.PlatformDetails)
        IN  /\ windows => Decided(i, ST_OS)
            /\ (~windows /\ RefGpu(t)) => Decided(i, ST_GPU)
            /\ (~windows /\ ~RefGpu(t) /\ RefMigrated(t)) => Decided(i, ST_GRAVITON)
            /\ (~windows /\ ~RefGpu(t) /\ ~RefMigrated(t)
                  /\ row.InstanceLifecycle = "spot") => Decided(i, ST_SPOT)

(***************************************************************************)
(* C5: for every type string, match_graviton_instances returns the triple  *)
(* of the rule table (all absent if the string does not parse, is GPU or   *)
(* is already migrated; else by family t, c/m, r, x, other), and the size  *)
(* of every candidate is the size of the input.                            *)
(***************************************************************************)
C5_MatchesRuleTable ==
    IsSome(out) =>
        /\ Val(out).match = RefTable(typ)
        /\ \A k \in 1..3 :
              IsSome(Val(out).match[k]) => AfterDot(Val(Val(out).match[k])) = AfterDot(typ)

C5_Witness ==
    /\ IsSome(out)
    /\ typ = <<"r", "5", "x", ".", "t">>
    /\ Val(out).match = <<Some(<<"r", "6", "g", ".", "t">>), Some(<<"r", "7", "g", ".", "t">>), NONE>>

(***************************************************************************)
(* C6: is_gpu_instance is true for every type whose family prefix (the     *)
(* characters before the first digit) is one of p, g, vt, dl, trn, inf,    *)
(* and false for m5.large and for the empty type.                          *)
(***************************************************************************)
C6_GpuFamiliesDetected ==
    IsSome(out) =>
        /\ RefGpu(typ) => Val(out).gpu = [exc |-> "none", val |-> TRUE]
        /\ typ \in {T_m5_large, T_empty} => Val(out).gpu = [exc |-> "none", val |-> FALSE]

(***************************************************************************)
(* C7: the analysis raises no error whatever the type strings are: every   *)
(* row iterated has its result, a type that does not parse gives a result  *)
(* without candidates, and the report of all rows is written.              *)
(***************************************************************************)
C7_AnalysisNeverRaises ==
    /\ raised \in {"", "read"}
    /\ Len(results) = Len(rows)
    /\ \A i \in 1..Len(results) :
          ~RefParses(rows[i].InstanceType) =>
              /\ results[i].Graviton2 = NONE
              /\ results[i].Graviton3 = NONE
              /\ results[i].Graviton4 = NONE
    /\ (pc = "done" /\ raised = "") => report = "written"

(***************************************************************************)
(* C8: a result of the mapping branch is "convertible" exactly when one of *)
(* its candidates has a price entry in cache[region] (a price of 0 is an   *)
(* entry), and "no regional candidate available" otherwise.                *)
(***************************************************************************)
HasEntry(cand, region) ==
    /\ IsSome(cand)
    /\ region \in DOMAIN price_cache
    /\ Val(cand) \in DOMAIN price_cache[region]

C8_ConvertibleIffCandidatePriced ==
    \A i \in 1..Len(results) :
        LET res == results[i]
        IN  res.Graviton_Status \in {ST_OK, ST_NOCAND} =>
                (res.Graviton_Status = ST_OK <=>
                    \/ HasEntry(res.Graviton2, res.Region)
                    \/ HasEntry(res.Graviton3, res.Region)
                    \/ HasEntry(res.Graviton4, res.Region))

(***************************************************************************)
(* C9: the summary has one row per (type, region) key of the convertible   *)
(* results, in the order the keys were first seen; a row's Count is the    *)
(* number of convertible results with its key, so the counts add up to the *)
(* number of convertible results; other results add no row and no count.   *)
(***************************************************************************)
Convertible == { i \in 1..Len(results) : results[i].Graviton_Status = ST_OK }
FirstSeen(key) == CHOOSE i \in Convertible :
                     /\ Key(results[i]) = key
                     /\ \A j \in Convertible : j < i => Key(results[j]) /= key

RECURSIVE SumCounts(_, _)
SumCounts(sum, n) == IF n = 0 THEN 0 ELSE SumCounts(sum, n - 1) + sum[n].Count

C9_SummaryCountsConvertible ==
    /\ \A i, j \in 1..Len(summary) : i /= j => Key(summary[i]) /= Key(summary[j])
    /\ { Key(summary[i]) : i \in 1..Len(summary) } = { Key(results[i]) : i \in Convertible }
    /\ \A i \in 1..Len(summary) :
          summary[i].Count =
              Cardinality({ j \in Convertible : Key(results[j]) = Key(summary[i]) })
    /\ SumCounts(summary, Len(summary)) = Cardinality(Convertible)
    /\ \A i, j \in 1..Len(summary) :
          i < j => FirstSeen(Key(summary[i])) < FirstSeen(Key(summary[j]))

\* two convertible results share a key: one row, with Count 2
C9_Witness ==
    /\ Len(summary) = 1
    /\ summary[1].Count = 2
    /\ Len(results) = 2

(***************************************************************************)
(* C10: fetch_prices_for_region of a region that is not in the table       *)
(* returns an empty map without any request and without raising; a row     *)
(* whose region is not in the table is analysed without error, with no     *)
(* original price and no candidate price.                                  *)
(***************************************************************************)
C10_UnknownRegion ==
    /\ \A r \in DOMAIN task :
          (r \notin REGION_LOCATION_MAP /\ task[r].st \notin {"idle", "pending"}) =>
              /\ task[r].st = "done"
              /\ task[r].result = Some(EmptyMap)
              /\ ~task[r].exception
              /\ task[r].loc.requests = 0
    /\ \A i \in 1..Len(rows) :
          rows[i].Region \notin REGION_LOCATION_MAP =>
              /\ i <= Len(results)
              /\ results[i].x86_OD_Price = NONE
              /\ results[i].Graviton2_OD_Price = NONE
              /\ results[i].Graviton3_OD_Price = NONE
              /\ results[i].Graviton4_OD_Price = NONE

(***************************************************************************)
(* Harness: fetch_prices_for_region called for any region, known or not    *)
(***************************************************************************)
CallRegions == REGION_LOCATION_MAP \cup {UnknownRegion, ""}

InitCalls ==
    /\ pc = "calls"
    /\ task = [r \in CallRegions |-> [IdleTask EXCEPT !.st = "pending"]]
    /\ price_cache = EmptyMap
    /\ writes = [r \in REGION_LOCATION_MAP |-> 0]
    /\ results = <<>>
    /\ summary = <<>>
    /\ rows = <<>>
    /\ raised = ""
    /\ report = "none"
    /\ typ = <<>>
    /\ out = NONE
    /\ exit_status = NONE

NextCalls ==
    \/ \E r \in CallRegions : FetchBegin(r)
    \/ \E r \in CallRegions : FetchPageOk(r)
    \/ \E r \in CallRegions : FetchPageFail(r)
    \/ \E r \in CallRegions : FetchReturn(r)

SpecCalls == InitCalls /\ [][NextCalls]_vars

(***************************************************************************)
(* C11: when the input file cannot be read or decoded, the failure reaches *)
(* the program boundary: the run ends with a non-zero exit status and no   *)
(* report is written.                                                      *)
(***************************************************************************)
C11_ReadFailureExitsNonZero ==
    (IsSome(exit_status) /\ raised = "read") =>
        /\ Val(exit_status) /= 0
        /\ report = "none"

(***************************************************************************)
(* C12: the pages are processed in chain order: every request asks for the *)
(* page after the last one fetched successfully, so a failed request is    *)
(* retried with the same token, no page is skipped and none is processed   *)
(* twice; no request follows a page that carried no token; and the map     *)
(* returned gives each type the price of its last kept occurrence in page  *)
(* order.                                                                  *)
(***************************************************************************)
OksBefore(log, i) == Cardinality({ j \in 1..(i - 1) : log[j].ok })

ChainOrder(r) ==
    LET loc == task[r].loc
        log == loc.log
    IN  /\ Len(log) = loc.requests
        /\ \A i \in 1..Len(log) : log[i].page = OksBefore(log, i) + 1
        /\ \A i \in 1..(Len(log) - 1) : log[i].ok => log[i].more
        /\ loc.oks = OksBefore(log, Len(log) + 1)
        /\ loc.price_data = ExpectedPrices(r, loc.oks)
        /\ (task[r].st = "loop" /\ Len(log) > 0 /\ log[Len(log)].ok) => log[Len(log)].more
        /\ (task[r].st = "return" /\ loc.retries > 0) =>
              /\ log[Len(log)].ok
              /\ ~log[Len(log)].more

C12_PagesInChainOrder ==
    /\ [](\A r \in REGION_LOCATION_MAP : ChainOrder(r))
    /\ [][\A r \in REGION_LOCATION_MAP :
             (task[r].st = "return" /\ task'[r].st = "done") =>
                 task'[r].result = Some(ExpectedPrices(r, task[r].loc.oks))]_vars

\* a chain of two pages fetched after a failed request, the second page
\* overriding the price the first gave for m5.large
C12_Witness ==
    LET loc == task[R1].loc
    IN  /\ task[R1].st = "return"
        /\ loc.oks = 2
        /\ loc.requests = 3
        /\ ~loc.log[1].ok
        /\ loc.price_data[T_m5_large] = 100

(***************************************************************************)
(* C13: the retry bound is counted per page: a fetch is abandoned only     *)
(* when one and the same page request has failed 3 times, and while the    *)
(* loop runs the attempts left to the current page are 3 less its own      *)
(* failures, whatever failed before on pages fetched since.                *)
(***************************************************************************)
FailuresOf(log, page) ==
    Cardinality({ i \in 1..Len(log) : ~log[i].ok /\ log[i].page = page })

C13_RetryBoundPerPage ==
    \A r \in REGION_LOCATION_MAP :
        LET loc == task[r].loc
        IN  /\ Abandoned(r) => FailuresOf(loc.log, loc.oks + 1) = RETRIES
            /\ task[r].st = "loop" =>
                  loc.retries = RETRIES - FailuresOf(loc.log, loc.oks + 1)

(***************************************************************************)
(* C14: the regions are isolated.  A step of one region's fetch changes no *)
(* other task; what a fetch returns is determined by the outcomes of its   *)
(* own requests; a cache entry is the result of the region's own task and  *)
(* is not touched when another region is stored; a task that has not       *)
(* finished can always take its next step whatever the others do; and a    *)
(* region whose worker is scheduled runs to completion even when the other *)
(* region fails, is given up or never advances.                            *)
(***************************************************************************)
TaskStep(r) == FetchBegin(r) \/ FetchPageOk(r) \/ FetchPageFail(r) \/ FetchReturn(r)

\* load_all_prices alone: the program up to the start of process_csv
NextLoad ==
    \/ Submit
    \/ \E r \in REGION_LOCATION_MAP : FetchBegin(r)
    \/ \E r \in REGION_LOCATION_MAP : FetchPageOk(r)
    \/ \E r \in REGION_LOCATION_MAP : FetchPageFail(r)
    \/ \E r \in REGION_LOCATION_MAP : FetchReturn(r)
    \/ \E r \in REGION_LOCATION_MAP : Collect(r)
    \/ PoolExit

\* the worker of the second region is scheduled fairly, nothing else is
SpecOneRegionFair == Init /\ [][NextLoad]_vars /\ WF_vars(TaskStep(R2))

OwnPages(log) == Cardinality({ i \in 1..Len(log) : log[i].ok })

SavingsAsDocumented(original_price, g_price, savings) ==
    /\ IsSome(savings) <=> (IsSome(original_price) /\ IsSome(g_price))
    /\ IsSome(savings) =>
          /\ Val(original_price) /= 0
          /\ Val(savings) = RoundDiv(10000 * (Val(original_price) - Val(g_price)),
                                     Val(original_price))

C15_SavingsIffBothPrices ==
    \A i \in 1..Len(results) :
        LET res == results[i]
        IN  res.Graviton_Status \in {ST_OK, ST_NOCAND} =>
                /\ SavingsAsDocumented(res.x86_OD_Price, res.Graviton2_OD_Price,
                                       res.Savings_Graviton2)
                /\ SavingsAsDocumented(res.x86_OD_Price, res.Graviton3_OD_Price,
                                       res.Savings_Graviton3)
                /\ SavingsAsDocumented(res.x86_OD_Price, res.Graviton4_OD_Price,
                                       res.Savings_Graviton4)

(***************************************************************************)
(* C16: a fetch over a chain of P pages ends, succeeded or given up, after *)
(* at most P + 2 requests of which at most 3 failed; and when the pool     *)
(* schedules its workers and the orchestrator fairly, every fetch ends,    *)
(* the fetch phase ends and the analysis phase starts.                     *)
(***************************************************************************)
\* while some worker of the pool can take a step one of them does, and the
\* orchestrator thread does not stop while it has a step to take
SpecFair ==
    /\ Init /\ [][NextLoad]_vars
    /\ WF_vars(Submit)
    /\ WF_vars(\E r \in REGION_LOCATION_MAP : TaskStep(r))
    /\ WF_vars(\E r \in REGION_LOCATION_MAP : Collect(r))
    /\ WF_vars(PoolExit)

\* P, the length of the chain, is known once a page came without a token;
\* before that it is at least the number of the page being requested
RequestBound(r) ==
    LET loc == task[r].loc
        failed == loc.requests - loc.oks
        succeeded == task[r].st = "return" /\ loc.retries > 0
        P == IF succeeded THEN loc.oks ELSE loc.oks + 1
    IN  task[r].st \in {"loop", "return"} =>
            /\ failed <= 3
            /\ loc.requests <= P + 2
            /\ P <= MaxPages
            /\ Abandoned(r) => failed = 3

C16_FetchTerminates ==
    /\ [](\A r \in REGION_LOCATION_MAP : RequestBound(r))
    /\ [](~FetchPhase => \A r \in REGION_LOCATION_MAP : task[r].st = "done")
    /\ <>(~FetchPhase)

\* a fetch given up on its second page after exactly P + 2 requests
C16_Witness ==
    /\ Abandoned(R2)
    /\ task[R2].loc.oks = 1
    /\ task[R2].loc.requests = 4
    /\ ~task[R2].loc.log[1].ok

(***************************************************************************)
(* C17: every candidate match_graviton_instances returns is itself         *)
(* recognised by is_graviton_instance, is not GPU-classified and differs   *)
(* from the input type; so match_graviton_instances of a candidate gives   *)
(* three absent values, and analyze_instance of a candidate is never       *)
(* "convertible", whatever the platform, the lifecycle and the prices.     *)
(***************************************************************************)
\* a cache that prices, in the first region, the candidate and every name
\* the family rule could derive from it
PricedAround(c) ==
    LET family == c[1]
        size == AfterDot(c)
        names == {c} \cup { GravitonName(family, gen, size) : gen \in {"2", "4", "6", "7", "8"} }
    IN  [r \in {R1} |-> [t \in names |-> 50]]

CandidateIsFinal(c) ==
    /\ is_graviton_instance(c)
    /\ is_gpu_instance(c) = [exc |-> "none", val |-> FALSE]
    /\ c /= typ
    /\ match_graviton_instances(c) = <<NONE, NONE, NONE>>
    /\ \A platform \in {P_linux, P_windows, P_empty}, lifecycle \in {"", "spot"} :
          LET a == analyze_instance(PricedAround(c), Row("i", c, R1, platform, lifecycle))
          IN  /\ a.exc = "none"
              /\ a.res.Graviton_Status /= ST_OK
              /\ NoCandidateFields(a.res)

C17_CandidatesAreFinal ==
    IsSome(out) =>
        \A k \in 1..3 :
            IsSome(Val(out).match[k]) => CandidateIsFinal(Val(Val(out).match[k]))

C17_Witness ==
    /\ IsSome(out)
    /\ typ = T_t3_micro
    /\ Val(out).match = <<Some(T_t4g_micro), NONE, NONE>>

(***************************************************************************)
(* C18: two convertible results with the same (type, region) have the same *)
(* original price, candidates, candidate prices and savings, whatever      *)
(* their name and platform; so the fields of a summary row are those of    *)
(* every result counted in it, in whatever order the rows were read.       *)
(***************************************************************************)
PriceFields(res) ==
    <<res.Graviton2, res.Graviton2_OD_Price, res.Savings_Graviton2,
      res.Graviton3, res.Graviton3_OD_Price, res.Savings_Graviton3,
      res.Graviton4, res.Graviton4_OD_Price, res.Savings_Graviton4>>

C18_SummaryRepresentsAll ==
    /\ \A i, j \in Convertible :
          Key(results[i]) = Key(results[j]) =>
              /\ results[i].x86_OD_Price = results[j].x86_OD_Price
              /\ PriceFields(results[i]) = PriceFields(results[j])
    /\ \A k \in 1..Len(summary) :
          \A i \in Convertible :
              Key(results[i]) = Key(summary[k]) =>
                  /\ summary[k].OD_Price = results[i].x86_OD_Price
                  /\ PriceFields(summary[k]) = PriceFields(results[i])

\* two rows of one key that differ in name and platform are both counted
C18_Witness ==
    /\ Len(results) = 2
    /\ Convertible = {1, 2}
    /\ Key(results[1]) = Key(results[2])
    /\ results[1].InstanceName /= results[2].InstanceName
    /\ rows[1].PlatformDetails /= rows[2].PlatformDetails
    /\ Len(summary) = 1
    /\ summary[1].Count = 2

====
